---- MODULE Spec2Model ----
(***************************************************************************)
(* Model of pyconfme's configuration loading core:                         *)
(*   - the format detector        config/config_loader.py                  *)
(*   - the per-format parsers     config/json_loader.py, toml_loader.py,   *)
(*                                config/yaml_loader.py                    *)
(*   - the format resolver        config/config_loader.py                  *)
(*   - the deep-merge engine      utility/dict_deep_update.py              *)
(*                                                                         *)
(* Spec      : one call of load_dict_from_file, or one direct call of a    *)
(*             per-format parser, on a source drawn from a catalogue.      *)
(* SpecMerge : successive dict_deep_update calls on one target.            *)
(***************************************************************************)
EXTENDS Integers, Sequences, FiniteSets, TLC

VARIABLES
    pc,            \* position of the running call
    src,           \* the file_path argument (path, stream, buffer, object, None)
    data_type,     \* the declared format argument
    max_file_size, \* the max_file_size argument
    detected,      \* result of _determine_config_file_type, "notcalled" if not called
    determined,    \* determined_data_type (the effective format)
    order,         \* resolve_order
    idx,           \* index of the next entry of resolve_order
    pos,           \* read position of the stream (tell()), 0 for a path
    closed,        \* whether the stream has been closed
    calls,         \* history: one record per parser invocation
    outcome,       \* what the call returned or raised
    target,        \* dict_deep_update: the target mapping
    source,        \* dict_deep_update: the source of the last call
    before,        \* dict_deep_update: target as it was before the last call
    merge_exc,     \* dict_deep_update: exception of the last call, "none" if it returned
    merges,        \* dict_deep_update: number of calls made
    m_pc,          \* _settings_config_load: position of the running call
    m_call,        \* _settings_config_load: the arguments it was called with
    error_handling,        \* _settings_config_load: error_handling after its default
    config_data_elements,  \* _settings_config_load: the list of sources
    m_i,           \* _settings_config_load: index of the next source
    result_dict,   \* _settings_config_load: the accumulator
    m_exc,         \* _settings_config_load: what reached the caller, "none" if nothing
    m_log,         \* history: one record per source the loop has dealt with
    heap,          \* objects: the mutable containers, by reference
    merged,        \* history: reference and value at merge time of every source merged
    a_target,      \* the target of the merges on the heap, as a value
    a_exc          \* exception of the last merge on the heap, "none" if it returned

vars == <<pc, src, data_type, max_file_size, detected, determined, order, idx,
          pos, closed, calls, outcome, target, source, before, merge_exc, merges,
          m_pc, m_call, error_handling, config_data_elements, m_i, result_dict,
          m_exc, m_log, heap, merged, a_target, a_exc>>

loadVars == <<pc, src, data_type, max_file_size, detected, determined, order, idx,
              pos, closed, calls, outcome>>

mergeVars == <<target, source, before, merge_exc, merges>>

multiVars == <<m_pc, m_call, error_handling, config_data_elements, m_i,
               result_dict, m_exc, m_log>>

aliasVars == <<heap, merged, a_target, a_exc>>

(***************************************************************************)
(* ConfigDataTypes                                                         *)
(***************************************************************************)
ConfigDataTypes == {"toml", "json", "yaml", "infer", "unknown"}

(***************************************************************************)
(* File names are sequences of characters, so that suffix extraction and   *)
(* lower-casing are computed rather than assumed.                          *)
(***************************************************************************)
UpperChars == <<"A","B","C","D","E","F","G","H","I","J","K","L","M",
                "N","O","P","Q","R","S","T","U","V","W","X","Y","Z">>

LowerChars == <<"a","b","c","d","e","f","g","h","i","j","k","l","m",
                "n","o","p","q","r","s","t","u","v","w","x","y","z">>

\* str.lower() on one character
LowerChar(c) ==
    IF \E i \in 1..26 : UpperChars[i] = c
    THEN LowerChars[CHOOSE i \in 1..26 : UpperChars[i] = c]
    ELSE c

\* variant: the suffix is compared as written, without lower-casing
lower_identity(s) == s

\* str.lower()
lower(s) == [i \in 1..Len(s) |-> LowerChar(s[i])]

\* str.rfind('.') as a 1-based index, 0 when there is no dot
rfind_dot(s) ==
    IF \E i \in 1..Len(s) : s[i] = "."
    THEN CHOOSE i \in 1..Len(s) : s[i] = "." /\ \A j \in (i+1)..Len(s) : s[j] # "."
    ELSE 0

\* pathlib's PurePath.suffix of the final path component
suffix(name) ==
    LET i == rfind_dot(name)
    IN  IF 1 < i /\ i < Len(name) THEN SubSeq(name, i, Len(name)) ELSE <<>>

JsonSuffixes == { <<".","j","s","o","n">>, <<".","j","s","n">> }

TomlSuffixes == { <<".","t","o","m","l">>, <<".","t","m","l">>, <<".","i","n","i">>,
                  <<".","c","o","n","f","i","g">>, <<".","c","f","g">> }

YamlSuffixes == { <<".","y","m","l">>, <<".","y","a","m","l">> }

_determine_config_file_type(file_name) ==
    IF lower(suffix(file_name)) \in JsonSuffixes THEN "json"
    ELSE IF lower(suffix(file_name)) \in TomlSuffixes THEN "toml"
    ELSE IF lower(suffix(file_name)) \in YamlSuffixes THEN "yaml"
    ELSE "unknown"

(***************************************************************************)
(* Inputs: file names                                                      *)
(***************************************************************************)
Stems == { <<>>, <<"c">>, <<"c",".","t","m","l">> }

Endings == JsonSuffixes \cup TomlSuffixes \cup YamlSuffixes \cup
           { <<".","J","S","O","N">>, <<".","C","o","N","f","I","g">>, <<".","Y","m","l">>,
             <<".","x","y","z">>, <<".","j","s","o","n","x">>, <<".">>, <<>>,
             <<".","j","s","o","n",".">>, <<"j","s","o","n">> }

\* the empty name and "." name the directory itself, never a file
FileNames == { st \o e : st \in Stems, e \in Endings } \ { <<>>, <<".">> }

(***************************************************************************)
(* Inputs: documents.  Each entry is a concrete text with what each        *)
(* backend does on it: "mapping" (a dict), "scalar" (another non-None      *)
(* value), "null" (parses to None) or "error" (the backend's syntax error).*)
(***************************************************************************)
Doc(id, len, j, t, y) == [id |-> id, len |-> len, json |-> j, toml |-> t, yaml |-> y]

EmptyDoc == Doc("empty", 0, "error", "mapping", "null")    \* ''

Docs == {
    EmptyDoc,
    Doc("json_object", 8, "mapping", "error", "mapping"),   \* '{"a": 1}'
    Doc("json_tabbed", 8, "mapping", "error", "error"),     \* '{"a":\t1}'
    Doc("json_null",   4, "null",    "error", "null"),      \* 'null'
    Doc("json_number", 2, "scalar",  "error", "scalar"),    \* '42'
    Doc("toml_pair",   5, "error",   "mapping", "scalar"),  \* 'a = 1'
    Doc("toml_table",  9, "error",   "mapping", "error"),   \* '[a]\nb = 1'
    Doc("yaml_pair",   4, "error",   "error", "mapping"),   \* 'a: 1'
    Doc("yaml_tilde",  1, "error",   "error", "null"),      \* '~'
    Doc("malformed",   1, "error",   "error", "error") }    \* '['

\* a regular file the process has no permission to read: 'foobar = "johndoe"'
\* behind mode 0o222
Unreadable == Doc("unreadable", 18, "denied", "denied", "denied")

(***************************************************************************)
(* Inputs: sources                                                         *)
(***************************************************************************)
MAX_CONFIG_FILE_SIZE == 1073741824

SmallLimit == 4

Limits == {0, SmallLimit, MAX_CONFIG_FILE_SIZE}

NoName == <<>>

Source(kind, name, fs, doc) == [kind |-> kind, name |-> name, fs |-> fs, doc |-> doc]

NoneSource == Source("none", NoName, "n/a", EmptyDoc)

\* a str or a pathlib.Path naming a regular file, a missing entry, a directory
\* or another kind of entry (device, fifo: exists, neither file nor directory)
PathSources ==
    { Source(k, n, "file", d) : k \in {"str", "path"}, n \in FileNames,
                                 d \in Docs \cup {Unreadable} }
    \cup { Source(k, n, f, EmptyDoc) : k \in {"str", "path"}, n \in FileNames,
                                       f \in {"missing", "dir", "other"} }

\* open streams and buffers: io.StringIO, a file opened in text mode, a file
\* opened in binary mode (or io.BytesIO, mmap)
StreamKinds == {"stringio", "textfile", "binary"}

StreamSources == { Source(k, NoName, "n/a", d) : k \in StreamKinds, d \in Docs }

\* an object that is neither a path nor readable, such as the integer 42
ObjectSource == Source("object", NoName, "n/a", EmptyDoc)

Sources == PathSources \cup StreamSources \cup {ObjectSource, NoneSource}

IsPath(s) == s.kind \in {"str", "path"}

IsStream(s) == s.kind \in StreamKinds

(***************************************************************************)
(* Per-format parsers.  A parser call yields what it returned or raised,   *)
(* the stream position it leaves behind, and the text it was given.        *)
(***************************************************************************)
NoResult == [fmt |-> "none", kind |-> "none", doc |-> "none"]

Result(fmt, kind, doc) == [fmt |-> fmt, kind |-> kind, doc |-> doc]

\* verdict: what the backend made of the text it was given ("mapping", "scalar",
\* "null", "error"), "denied" when reading the file was not permitted, or
\* "invalid_object" when the source could not be read at all
Returned(res, p, verdict) == [exc |-> "none", res |-> res, pos |-> p, verdict |-> verdict]

Raised(exc, p, verdict) == [exc |-> exc, res |-> NoResult, pos |-> p, verdict |-> verdict]

\* what stream.read() yields at position p: everything from p to the end
read(s, p) == IF p = 0 THEN s.doc ELSE EmptyDoc

\* "on error, reset file pointer, if opened file-like was given"
seek0_unless_path(s, p) == IF s.kind = "path" THEN p ELSE 0

\* position after the backend has read the source to its end
consumed(s, p) == IF s.kind = "path" THEN p ELSE s.doc.len

\* variant: a syntax error is always soft, whatever the declared format
parse_outcome_always_soft(fmt, s, dt, text, after) ==
    IF text[fmt] = "denied"
    THEN Raised("PermissionError", after, "denied")
    ELSE IF text[fmt] = "error"
    THEN Returned(NoResult, seek0_unless_path(s, after), "error")
    ELSE IF text[fmt] = "null"
         THEN Returned(NoResult, after, "null")
         ELSE Returned(Result(fmt, text[fmt], text.id), after, text[fmt])

\* variant: a syntax error raises as soon as any real format was declared
parse_outcome_raise_declared(fmt, s, dt, text, after) ==
    IF text[fmt] = "denied"
    THEN Raised("PermissionError", after, "denied")
    ELSE IF text[fmt] = "error"
    THEN IF dt \in {"json", "toml", "yaml"}
         THEN Raised("DictLoadError", after, "error")
         ELSE Returned(NoResult, seek0_unless_path(s, after), "error")
    ELSE IF text[fmt] = "null"
         THEN Returned(NoResult, after, "null")
         ELSE Returned(Result(fmt, text[fmt], text.id), after, text[fmt])

\* variant: a document that parses to None is an error for the parser of the
\* declared format
parse_outcome_null_raises(fmt, s, dt, text, after) ==
    IF text[fmt] = "denied"
    THEN Raised("PermissionError", after, "denied")
    ELSE IF text[fmt] = "error"
    THEN IF dt = fmt
         THEN Raised("DictLoadError", after, "error")
         ELSE Returned(NoResult, seek0_unless_path(s, after), "error")
    ELSE IF text[fmt] = "null"
         THEN IF dt = fmt
              THEN Raised("DictLoadError", after, "null")
              ELSE Returned(NoResult, after, "null")
         ELSE Returned(Result(fmt, text[fmt], text.id), after, text[fmt])

\* the tail shared by the three parsers: a backend syntax error raises
\* DictLoadError when the declared format is the parser's own, otherwise the
\* stream is rewound and None is returned; a parsed value is returned as it is
\* (None included, without rewinding).  Opening or reading a file the process
\* may not read raises PermissionError, which no parser catches
parse_outcome(fmt, s, dt, text, after) ==
    IF text[fmt] = "denied"
    THEN Raised("PermissionError", after, "denied")
    ELSE IF text[fmt] = "error"
    THEN IF dt = fmt
         THEN Raised("DictLoadError", after, "error")
         ELSE Returned(NoResult, seek0_unless_path(s, after), "error")
    ELSE IF text[fmt] = "null"
         THEN Returned(NoResult, after, "null")
         ELSE Returned(Result(fmt, text[fmt], text.id), after, text[fmt])

_load_dict_from_json_stream_or_file(s, p, dt) ==
    IF s.kind = "path"
    THEN parse_outcome("json", s, dt, s.doc, p)                      \* read_text()
    ELSE IF IsStream(s)
         THEN parse_outcome("json", s, dt, read(s, p), consumed(s, p))
         ELSE Raised("DictLoadError", p, "invalid_object")           \* AttributeError

_load_dict_from_toml_stream_or_file(s, p, dt) ==
    IF s.kind = "binary"
    THEN parse_outcome("toml", s, dt, read(s, p), consumed(s, p))    \* read().decode()
    ELSE IF s.kind = "stringio"
         THEN parse_outcome("toml", s, dt, s.doc, p)                 \* getvalue()
         ELSE IF s.kind = "path"
              THEN parse_outcome("toml", s, dt, s.doc, p)            \* toml.load(path)
              ELSE IF s.kind = "textfile"
                   THEN parse_outcome("toml", s, dt, read(s, p), consumed(s, p))
                   ELSE Raised("DictLoadError", p, "invalid_object") \* TypeError

_load_dict_from_yaml_stream_or_file(s, p, dt) ==
    IF s.kind = "path"
    THEN parse_outcome("yaml", s, dt, s.doc, p)                      \* read_text()
    ELSE IF IsStream(s)
         THEN parse_outcome("yaml", s, dt, read(s, p), consumed(s, p))
         ELSE Raised("DictLoadError", p, "invalid_object")           \* AttributeError

\* the history record of one parser invocation
CallRecord(fmt, s, p, dt, r) ==
    [parser |-> fmt, declared |-> dt, stream |-> IsStream(s), verdict |-> r.verdict,
     pos_before |-> p, pos_after |-> r.pos, exc |-> r.exc, res |-> r.res]

(***************************************************************************)
(* load_dict_from_file                                                     *)
(***************************************************************************)
\* variant: after yaml, toml is tried before json
resolve_order_yaml_swapped(determined_data_type) ==
    IF determined_data_type = "toml" THEN <<"toml", "json", "yaml">>
    ELSE IF determined_data_type = "yaml" THEN <<"yaml", "toml", "json">>
    ELSE <<"json", "toml", "yaml">>

resolve_order(determined_data_type) ==
    IF determined_data_type = "toml" THEN <<"toml", "json", "yaml">>
    ELSE IF determined_data_type = "yaml" THEN <<"yaml", "json", "toml">>
    ELSE <<"json", "toml", "yaml">>

\* st_size of the entry a path names
st_size(s) == IF s.fs = "file" THEN s.doc.len ELSE 0

\* variant: a file as large as the limit is rejected
validate_ge(s, limit) ==
    IF s.kind = "none" THEN "ValueError"
    ELSE IF IsPath(s)
         THEN IF s.fs = "missing" THEN "FileNotFoundError"
              ELSE IF s.fs = "dir" THEN "IsADirectoryError"
              ELSE IF st_size(s) >= limit THEN "ValueError"
              ELSE "ok"
         ELSE "ok"

\* the checks made before any parser runs; "ok" when they all pass
validate(s, limit) ==
    IF s.kind = "none" THEN "ValueError"
    ELSE IF IsPath(s)
         THEN IF s.fs = "missing" THEN "FileNotFoundError"
              ELSE IF s.fs = "dir" THEN "IsADirectoryError"
              ELSE IF st_size(s) > limit THEN "ValueError"
              ELSE "ok"
         ELSE "ok"

\* variant: a declared unknown is also resolved from the suffix
effective_format_guess_unknown(s, dt) ==
    IF IsPath(s)
    THEN IF dt \in {"infer", "unknown"} THEN _determine_config_file_type(s.name) ELSE dt
    ELSE dt

\* determined_data_type
effective_format(s, dt) ==
    IF IsPath(s)
    THEN IF dt = "infer" THEN _determine_config_file_type(s.name) ELSE dt
    ELSE dt

\* a str is turned into a Path
as_path(s) == IF s.kind = "str" THEN [s EXCEPT !.kind = "path"] ELSE s

Idle ==
    /\ pc = "idle" /\ src = NoneSource /\ data_type = "infer"
    /\ max_file_size = MAX_CONFIG_FILE_SIZE
    /\ detected = "notcalled" /\ determined = "infer"
    /\ order = <<>> /\ idx = 1 /\ pos = 0 /\ closed = FALSE
    /\ calls = <<>> /\ outcome = [exc |-> "none", res |-> NoResult]

\* load_dict_from_file is entered: lines up to the parser loop
Call(s, dt, limit) ==
    /\ pc = "idle"
    /\ src' = as_path(s)
    /\ data_type' = dt
    /\ max_file_size' = limit
    /\ LET v == validate(s, limit)
       IN  IF v # "ok"
           THEN /\ pc' = "raised"
                /\ outcome' = [exc |-> v, res |-> NoResult]
                /\ UNCHANGED <<detected, determined, order>>
           ELSE /\ pc' = "trying"
                /\ detected' = IF IsPath(s) /\ dt = "infer"
                               THEN _determine_config_file_type(s.name) ELSE "notcalled"
                /\ determined' = effective_format(s, dt)
                /\ order' = resolve_order(effective_format(s, dt))
                /\ UNCHANGED outcome
    /\ UNCHANGED <<idx, pos, closed, calls>>
    /\ UNCHANGED <<mergeVars, multiVars, aliasVars>>

\* one iteration of the parser loop
Try(fmt, r) ==
    /\ pc = "trying"
    /\ idx <= Len(order)
    /\ order[idx] = fmt
    /\ calls' = Append(calls, CallRecord(fmt, src, pos, determined, r))
    /\ pos' = r.pos
    /\ IF r.exc # "none"
       THEN /\ pc' = "raised"
            /\ outcome' = [exc |-> r.exc, res |-> NoResult]
            /\ UNCHANGED idx
       ELSE IF r.res # NoResult
            THEN /\ pc' = "returned"
                 /\ outcome' = [exc |-> "none", res |-> r.res]
                 /\ UNCHANGED idx
            ELSE /\ pc' = IF idx = Len(order) THEN "exhausted" ELSE "trying"
                 /\ idx' = idx + 1
                 /\ UNCHANGED outcome
    /\ UNCHANGED <<src, data_type, max_file_size, detected, determined, order, closed>>
    /\ UNCHANGED <<mergeVars, multiVars, aliasVars>>

TryJson == Try("json", _load_dict_from_json_stream_or_file(src, pos, determined))

TryToml == Try("toml", _load_dict_from_toml_stream_or_file(src, pos, determined))

TryYaml == Try("yaml", _load_dict_from_yaml_stream_or_file(src, pos, determined))

\* after the loop: the terminal raise.  Its message is built from
\* ConfigDataTypes.allowed_names(), which the enumeration does not define, so
\* evaluating the message raises AttributeError before DictLoadError is built
allowed_names_defined == FALSE

terminal_error == IF allowed_names_defined THEN "DictLoadError" ELSE "AttributeError"

RaiseTerminal ==
    /\ pc = "exhausted"
    /\ pc' = "raised"
    /\ outcome' = [exc |-> terminal_error, res |-> NoResult]
    /\ pos' = IF terminal_error = "DictLoadError" THEN consumed(src, pos) ELSE pos
    /\ UNCHANGED <<src, data_type, max_file_size, detected, determined, order, idx,
                   closed, calls>>
    /\ UNCHANGED <<mergeVars, multiVars, aliasVars>>

\* a per-format parser called on its own, as the tests do
Direct(fmt, s, dt, r) ==
    /\ pc = "idle"
    /\ src' = s
    /\ data_type' = dt
    /\ calls' = <<CallRecord(fmt, s, pos, dt, r)>>
    /\ pos' = r.pos
    /\ pc' = "parser_done"
    /\ outcome' = [exc |-> r.exc, res |-> r.res]
    /\ UNCHANGED <<max_file_size, detected, determined, order, idx, closed>>
    /\ UNCHANGED <<mergeVars, multiVars, aliasVars>>

DirectSources == { s \in Sources : s.kind # "str" /\ (s.kind = "path" => s.fs = "file") }

DirectJson ==
    /\ pc = "idle"
    /\ \E s \in DirectSources, dt \in ConfigDataTypes :
        Direct("json", s, dt, _load_dict_from_json_stream_or_file(s, pos, dt))

DirectToml ==
    /\ pc = "idle"
    /\ \E s \in DirectSources, dt \in ConfigDataTypes :
        Direct("toml", s, dt, _load_dict_from_toml_stream_or_file(s, pos, dt))

DirectYaml ==
    /\ pc = "idle"
    /\ \E s \in DirectSources, dt \in ConfigDataTypes :
        Direct("yaml", s, dt, _load_dict_from_yaml_stream_or_file(s, pos, dt))

CallLoad ==
    /\ pc = "idle"
    /\ \E s \in Sources, dt \in ConfigDataTypes, limit \in Limits : Call(s, dt, limit)

(***************************************************************************)
(* Values of the merged mapping.  A dict is the sequence of its items in   *)
(* insertion order, with pairwise distinct keys.                           *)
(***************************************************************************)
NoneV == [t |-> "none", v |-> 0]

IntV(n) == [t |-> "int", v |-> n]

List(s) == [t |-> "list", v |-> s]

SetV(S) == [t |-> "set", v |-> S]

Dict(items) == [t |-> "dict", v |-> items]

Item(k, v) == [k |-> k, v |-> v]

EmptyDict == Dict(<<>>)

Keys == {"a", "b"}

\* the keys of a dict
KeysOf(d) == { d.v[i].k : i \in 1..Len(d.v) }

\* key in d
Has(d, k) == k \in KeysOf(d)

\* d[k]
Get(d, k) == d.v[CHOOSE i \in 1..Len(d.v) : d.v[i].k = k].v

\* d[k] = val: an existing key keeps its place, a new key goes last
Put(d, k, val) ==
    IF Has(d, k)
    THEN Dict([i \in 1..Len(d.v) |-> IF d.v[i].k = k THEN Item(k, val) ELSE d.v[i]])
    ELSE Dict(Append(d.v, Item(k, val)))

(***************************************************************************)
(* dict_deep_update                                                        *)
(***************************************************************************)
MAX_RECURSION_DEPTH == 8

Done(t) == [exc |-> "none", target |-> t]

Fail(exc, t) == [exc |-> exc, target |-> t]

\* variant: an empty source leaves target as it is
clear_on_empty_noop(t) == t

\* target.clear() on an empty source
clear_on_empty(t) == EmptyDict

\* variant: a list is not copied in when the key is absent from target
update_list_skip_absent(t, k, sv) ==
    IF ~Has(t, k) THEN t
    ELSE IF Get(t, k).t = "list" THEN Put(t, k, List(Get(t, k).v \o sv.v))
    ELSE Put(t, k, sv)

\* variant: a source list replaces target's list instead of extending it
update_list_overwrite(t, k, sv) == Put(t, k, sv)

\* variant: target's list is extended only with the entries it does not hold
update_list_union(t, k, sv) ==
    IF ~Has(t, k) THEN Put(t, k, sv)
    ELSE IF Get(t, k).t = "list"
         THEN LET old == Get(t, k).v
                  New(x) == \A i \in 1..Len(old) : old[i] # x
              IN  Put(t, k, List(old \o SelectSeq(sv.v, New)))
         ELSE Put(t, k, sv)

\* the branch for a source value that is a list
update_list(t, k, sv) ==
    IF ~Has(t, k) THEN Put(t, k, sv)
    ELSE IF Get(t, k).t = "list" THEN Put(t, k, List(Get(t, k).v \o sv.v))
    ELSE Put(t, k, sv)

\* the branch for a source value that is a set
update_set(t, k, sv) ==
    IF ~Has(t, k) THEN Put(t, k, sv)
    ELSE IF Get(t, k).t = "set" THEN Put(t, k, SetV(Get(t, k).v \cup sv.v))
    ELSE Put(t, k, sv)

\* variant: a None in source does not overwrite a value target already holds
update_scalar_keep_on_none(t, k, sv) ==
    IF sv = NoneV /\ Has(t, k) THEN t ELSE Put(t, k, sv)

\* the branches for None and for any other value
update_scalar(t, k, sv) == Put(t, k, sv)

RECURSIVE dict_deep_update(_, _, _)
RECURSIVE update_items(_, _, _, _)

RECURSIVE update_items_nested_overwrite(_, _, _, _)

\* variant: a source mapping replaces target's mapping instead of being merged
\* into it
update_items_nested_overwrite(t, items, i, depth) ==
    IF i > Len(items) THEN Done(t)
    ELSE LET k  == items[i].k
             sv == items[i].v
             step ==
                 IF sv.t = "list" THEN Done(update_list(t, k, sv))
                 ELSE IF sv.t = "dict" THEN Done(Put(t, k, sv))
                 ELSE IF sv.t = "set" THEN Done(update_set(t, k, sv))
                 ELSE Done(update_scalar(t, k, sv))
         IN  update_items_nested_overwrite(step.target, items, i + 1, depth)

RECURSIVE update_items_recurse_on_absent(_, _, _, _)

\* variant: a source mapping under a key absent from target is merged into a
\* fresh empty mapping by a recursive call, which counts against the ceiling
update_items_recurse_on_absent(t, items, i, depth) ==
    IF i > Len(items) THEN Done(t)
    ELSE LET k  == items[i].k
             sv == items[i].v
             step ==
                 IF sv.t = "list" THEN Done(update_list(t, k, sv))
                 ELSE IF sv.t = "dict"
                      THEN IF ~Has(t, k)
                           THEN LET r == dict_deep_update(EmptyDict, sv, depth + 1)
                                IN  [exc |-> r.exc, target |-> Put(t, k, r.target)]
                           ELSE IF Get(t, k).t = "dict"
                                THEN LET r == dict_deep_update(Get(t, k), sv, depth + 1)
                                     IN  [exc |-> r.exc, target |-> Put(t, k, r.target)]
                                ELSE Done(Put(t, k, sv))
                      ELSE IF sv.t = "set" THEN Done(update_set(t, k, sv))
                           ELSE Done(update_scalar(t, k, sv))
         IN  IF step.exc # "none" THEN step
             ELSE update_items_recurse_on_absent(step.target, items, i + 1, depth)

\* the loop over source.items(), from item i on; it stops at the first error
\* and leaves in target what was changed until then
update_items(t, items, i, depth) ==
    IF i > Len(items) THEN Done(t)
    ELSE LET k  == items[i].k
             sv == items[i].v
             step ==
                 IF sv.t = "list" THEN Done(update_list(t, k, sv))
                 ELSE IF sv.t = "dict"
                      THEN IF ~Has(t, k) THEN Done(Put(t, k, sv))
                           ELSE IF Get(t, k).t = "dict"
                                THEN LET r == dict_deep_update(Get(t, k), sv, depth + 1)
                                     IN  [exc |-> r.exc, target |-> Put(t, k, r.target)]
                                ELSE Done(Put(t, k, sv))
                      ELSE IF sv.t = "set" THEN Done(update_set(t, k, sv))
                           ELSE Done(update_scalar(t, k, sv))
         IN  IF step.exc # "none" THEN step
             ELSE update_items(step.target, items, i + 1, depth)

\* variant: the ceiling is reached one level earlier
dict_deep_update_ge(t, s, recursion_depth) ==
    LET depth == IF recursion_depth >= 0 THEN recursion_depth ELSE 0
    IN  IF depth >= MAX_RECURSION_DEPTH THEN Fail("RecursionError", t)
        ELSE IF t = NoneV THEN Fail("ValueError", t)
        ELSE IF s = NoneV THEN Fail("ValueError", t)
        ELSE IF s = EmptyDict THEN Done(clear_on_empty(t))
        ELSE IF s.t # "dict" THEN Fail("AttributeError", t)     \* source.items()
        ELSE update_items(t, s.v, 1, depth)

\* variant: the recursion depth is not checked
dict_deep_update_no_ceiling(t, s, recursion_depth) ==
    LET depth == IF recursion_depth >= 0 THEN recursion_depth ELSE 0
    IN  IF t = NoneV THEN Fail("ValueError", t)
        ELSE IF s = NoneV THEN Fail("ValueError", t)
        ELSE IF s = EmptyDict THEN Done(clear_on_empty(t))
        ELSE IF s.t # "dict" THEN Fail("AttributeError", t)
        ELSE update_items(t, s.v, 1, depth)

\* variant: a call that raises leaves its target as it found it
dict_deep_update_atomic(t, s, recursion_depth) ==
    LET depth == IF recursion_depth >= 0 THEN recursion_depth ELSE 0
        r == IF depth > MAX_RECURSION_DEPTH THEN Fail("RecursionError", t)
             ELSE IF t = NoneV THEN Fail("ValueError", t)
             ELSE IF s = NoneV THEN Fail("ValueError", t)
             ELSE IF s = EmptyDict THEN Done(clear_on_empty(t))
             ELSE IF s.t # "dict" THEN Fail("AttributeError", t)
             ELSE update_items(t, s.v, 1, depth)
    IN  IF r.exc # "none" THEN Fail(r.exc, t) ELSE r

\* variant: an empty source clears the target of the top-level call only
dict_deep_update_clear_top_only(t, s, recursion_depth) ==
    LET depth == IF recursion_depth >= 0 THEN recursion_depth ELSE 0
    IN  IF depth > MAX_RECURSION_DEPTH THEN Fail("RecursionError", t)
        ELSE IF t = NoneV THEN Fail("ValueError", t)
        ELSE IF s = NoneV THEN Fail("ValueError", t)
        ELSE IF s = EmptyDict THEN Done(IF depth = 0 THEN clear_on_empty(t) ELSE t)
        ELSE IF s.t # "dict" THEN Fail("AttributeError", t)
        ELSE update_items(t, s.v, 1, depth)

dict_deep_update(t, s, recursion_depth) ==
    LET depth == IF recursion_depth >= 0 THEN recursion_depth ELSE 0
    IN  IF depth > MAX_RECURSION_DEPTH THEN Fail("RecursionError", t)
        ELSE IF t = NoneV THEN Fail("ValueError", t)
        ELSE IF s = NoneV THEN Fail("ValueError", t)
        ELSE IF s = EmptyDict THEN Done(clear_on_empty(t))
        ELSE IF s.t # "dict" THEN Fail("AttributeError", t)     \* source.items()
        ELSE update_items(t, s.v, 1, depth)

(***************************************************************************)
(* Inputs: mappings to merge                                               *)
(***************************************************************************)
MaxInt == 2

MaxChain == 10

MaxMerges == 2

Leaves == {NoneV} \cup { IntV(n) : n \in 1..MaxInt }
                  \cup { List(<<n>>) : n \in 1..MaxInt }
                  \cup { SetV({n}) : n \in 1..MaxInt }

Single(k, v) == Dict(<<Item(k, v)>>)

Pair(k1, v1, k2, v2) == Dict(<<Item(k1, v1), Item(k2, v2)>>)

\* {k: leaf}
FlatDicts == { Single(k, v) : k \in Keys, v \in Leaves }

\* {"a": {}}, {"a": {"a": {}}} and {"a": {k: n}}
NestedDicts == { Single("a", EmptyDict), Single("a", Single("a", EmptyDict)) }
               \cup { Single("a", Single(k, IntV(n))) : k \in Keys, n \in 1..MaxInt }

\* two items, in both insertion orders
PairDicts == { Pair(ks[1], v, ks[2], IntV(MaxInt)) :
                   ks \in { <<"a", "b">>, <<"b", "a">> },
                   v \in {List(<<1>>), Single("a", IntV(1))} }

\* n nested one-key mappings around a list
RECURSIVE Chain(_)
Chain(n) == IF n = 0 THEN List(<<1>>) ELSE Single("a", Chain(n - 1))

ChainDicts == { Chain(n) : n \in MAX_RECURSION_DEPTH..MaxChain }

\* ten mapping levels with a scalar next to the chain, at the top and one
\* level down: {"b": 1, "a": {...}} and {"a": {"b": 1, "a": {...}}}
DeepPairs == { Pair("b", IntV(1), "a", Chain(MAX_RECURSION_DEPTH + 1)),
               Single("a", Pair("b", IntV(1), "a", Chain(MAX_RECURSION_DEPTH))) }

MergeSources == {NoneV, EmptyDict} \cup FlatDicts \cup NestedDicts \cup PairDicts
                \cup ChainDicts \cup DeepPairs

\* the targets a run starts from
InitialTargets == {EmptyDict, NoneV, Single("a", List(<<1>>))}

MergeIdle ==
    /\ target \in InitialTargets
    /\ source = NoneV /\ before = NoneV /\ merge_exc = "none" /\ merges = 0

\* dict_deep_update(target, s)
DeepUpdate ==
    /\ merges < MaxMerges
    /\ \E s \in MergeSources :
           LET r == dict_deep_update(target, s, 0)
           IN  /\ target' = r.target
               /\ merge_exc' = r.exc
               /\ source' = s
               /\ before' = target
    /\ merges' = merges + 1
    /\ UNCHANGED <<loadVars, multiVars, aliasVars>>

(***************************************************************************)
(* Values of the documents.  What a backend returns for a document that it *)
(* parses to a mapping, by the document's id; any other parsed value is a  *)
(* scalar.                                                                 *)
(***************************************************************************)
\* JSON documents with further values
ValueDocs == {
    Doc("json_a2",     8,  "mapping", "error", "mapping"),   \* '{"a": 2}'
    Doc("json_nested", 15, "mapping", "error", "mapping"),   \* '{"a": {"a": 2}}'
    Doc("json_list",   10, "mapping", "error", "mapping"),   \* '{"a": [1]}'
    Doc("json_empty_object", 2, "mapping", "error", "mapping"),    \* '{}'
    Doc("json_deep",   73, "mapping", "error", "mapping") }
        \* '{"a": {"a": {"a": {"a": {"a": {"a": {"a": {"a": {"a": {"a": [1]}}}}}}}}}}'

DocById(id) == CHOOSE d \in Docs \cup ValueDocs : d.id = id

mapping_value(id) ==
    CASE id = "json_object" -> Single("a", IntV(1))
      [] id = "json_tabbed" -> Single("a", IntV(1))
      [] id = "toml_pair"   -> Single("a", IntV(1))
      [] id = "yaml_pair"   -> Single("a", IntV(1))
      [] id = "toml_table"  -> Single("a", Single("b", IntV(1)))
      [] id = "json_a2"     -> Single("a", IntV(2))
      [] id = "json_nested" -> Single("a", Single("a", IntV(2)))
      [] id = "json_list"   -> Single("a", List(<<1>>))
      [] id = "json_deep"   -> Chain(MAX_RECURSION_DEPTH + 2)
      [] OTHER              -> EmptyDict     \* '' read as TOML, '{}'

\* a parsed value that is not a mapping: 42, 'a = 1' read as YAML
ScalarV(id) == [t |-> "str", v |-> id]

\* the Python value of a parser result
value_of(res) == IF res.kind = "mapping" THEN mapping_value(res.doc) ELSE ScalarV(res.doc)

(***************************************************************************)
(* load_dict_from_file as one function: what a call on a fresh source      *)
(* returns or raises                                                       *)
(***************************************************************************)
parser(fmt, s, p, dt) ==
    IF fmt = "json" THEN _load_dict_from_json_stream_or_file(s, p, dt)
    ELSE IF fmt = "toml" THEN _load_dict_from_toml_stream_or_file(s, p, dt)
    ELSE _load_dict_from_yaml_stream_or_file(s, p, dt)

RECURSIVE try_parsers(_, _, _, _, _)

\* the parser loop from entry i of resolve_order on, and the terminal raise
try_parsers(s, p, determined_data_type, resolve, i) ==
    IF i > Len(resolve) THEN [exc |-> terminal_error, res |-> NoResult]
    ELSE LET r == parser(resolve[i], s, p, determined_data_type)
         IN  IF r.exc # "none" THEN [exc |-> r.exc, res |-> NoResult]
             ELSE IF r.res # NoResult THEN [exc |-> "none", res |-> r.res]
             ELSE try_parsers(s, r.pos, determined_data_type, resolve, i + 1)

load_dict_from_file(s, dt, limit) ==
    LET v == validate(s, limit)
    IN  IF v # "ok" THEN [exc |-> v, res |-> NoResult]
        ELSE try_parsers(as_path(s), 0, effective_format(s, dt),
                         resolve_order(effective_format(s, dt)), 1)

(***************************************************************************)
(* _settings_config_load                                                   *)
(***************************************************************************)
MaxSources == 2

allowed_error_handling == {"abort", "ignore", "propagate"}

\* the error_handling argument: a policy, None, or something else
ErrorHandlings == allowed_error_handling \cup {"None", "foobar"}

\* the names of the sources of a multi-source call
JsonName == <<"c", ".", "j", "s", "o", "n">>

TomlName == <<"c", ".", "t", "o", "m", "l">>

\* the sources a multi-source call draws from
MultiSources == {
    Source("path", JsonName, "file", DocById("json_object")),
    Source("str",  JsonName, "file", DocById("json_a2")),
    Source("path", JsonName, "file", DocById("json_nested")),
    Source("path", TomlName, "file", DocById("toml_table")),
    Source("path", JsonName, "file", DocById("json_empty_object")),
    Source("path", JsonName, "file", DocById("json_number")),
    Source("path", JsonName, "file", DocById("malformed")),
    Source("path", JsonName, "file", Unreadable),
    Source("path", JsonName, "missing", EmptyDoc),
    Source("str",  JsonName, "dir", EmptyDoc),
    Source("path", JsonName, "file", DocById("json_deep")),
    Source("stringio", NoName, "n/a", DocById("json_list")),
    Source("stringio", NoName, "n/a", DocById("malformed")),
    ObjectSource }

Seqs(S, n) == UNION { [1..k -> S] : k \in 0..n }

\* the file_path argument: None, one source, or a list or tuple of sources
FilePath(shape, value) == [shape |-> shape, value |-> value]

\* the sources of the longer lists: files that load to a mapping
LayerSources == {
    Source("path", JsonName, "file", DocById("json_object")),
    Source("str",  JsonName, "file", DocById("json_a2")),
    Source("path", TomlName, "file", DocById("toml_table")),
    Source("path", JsonName, "file", DocById("json_empty_object")) }

FilePaths ==
    {FilePath("none", <<>>)}
    \cup { FilePath("single", s) : s \in MultiSources }
    \cup { FilePath(sh, q) : sh \in {"list", "tuple"}, q \in Seqs(MultiSources, MaxSources) }
    \cup { FilePath("list", q) : q \in [1..(MaxSources + 1) -> LayerSources] }

\* variant: a path counts as existing as soon as it names any entry
exists_any_entry(config_data) ==
    IF IsPath(config_data) THEN config_data.fs # "missing" ELSE TRUE

\* exists: a path must name a regular file, anything else is taken as it is
exists(config_data) ==
    IF IsPath(config_data) THEN config_data.fs = "file" ELSE TRUE

\* the errors the loop catches: DictLoadError, and IOError (OSError) with its
\* subclasses
CaughtErrors == {"DictLoadError", "PermissionError", "FileNotFoundError",
                 "IsADirectoryError"}

\* variant: only DictLoadError is caught, an IOError always reaches the caller
handle_dict_load_error_only(exc, policy) ==
    IF exc = "DictLoadError"
    THEN IF policy = "abort" THEN "exit"
         ELSE IF policy = "propagate" THEN "raise"
         ELSE "continue"
    ELSE "raise"

\* variant: no exception is caught, whatever the policy
handle_never_caught(exc, policy) == "raise"

\* variant: every exception is caught and handled by the policy
handle_catch_all(exc, policy) ==
    IF policy = "abort" THEN "exit"
    ELSE IF policy = "propagate" THEN "raise"
    ELSE "continue"

\* what the loop does with an exception of loading or merging one source:
\* "exit" (sys.exit()), "raise" (it reaches the caller), "continue"
handle(exc, policy) ==
    IF exc \in CaughtErrors
    THEN IF policy = "abort" THEN "exit"
         ELSE IF policy = "propagate" THEN "raise"
         ELSE "continue"
    ELSE "raise"

\* variant: the loaded mapping replaces the accumulator
merge_loaded_replace(result, load_result) == Done(load_result)

\* dict_deep_update(result_dict, load_result)
merge_loaded(result, load_result) == dict_deep_update(result, load_result, 0)

\* load one source and merge it: the exception raised in the try block, "none"
\* if there was none, and the accumulator it leaves
load_and_merge(result, config_data, dt) ==
    LET l == load_dict_from_file(config_data, dt, MAX_CONFIG_FILE_SIZE)
    IN  IF l.exc # "none" THEN [exc |-> l.exc, target |-> result]
        ELSE merge_loaded(result, value_of(l.res))

LogRecord(config_data, loaded, exc, old, new) ==
    [source |-> config_data, loaded |-> loaded, exc |-> exc, before |-> old,
     after |-> new]

NoCall == [file_path |-> FilePath("none", <<>>), data_type |-> "infer",
           error_handling |-> "propagate"]

MultiIdle ==
    /\ m_pc = "idle" /\ m_call = NoCall /\ error_handling = "propagate"
    /\ config_data_elements = <<>> /\ m_i = 1 /\ result_dict = EmptyDict
    /\ m_exc = "none" /\ m_log = <<>>

\* variant: a None file_path raises ValueError under every policy
none_file_path_always_raises(policy) == [pc |-> "raised", exc |-> "ValueError"]

\* "if file_path is None": sys.exit(), raise ValueError, or return {}
none_file_path(policy) ==
    IF policy = "abort" THEN [pc |-> "exited", exc |-> "SystemExit"]
    ELSE IF policy = "propagate" THEN [pc |-> "raised", exc |-> "ValueError"]
    ELSE [pc |-> "returned", exc |-> "none"]

\* variant: None is not given a default
default_error_handling_kept(eh) == eh

\* "if error_handling is None: error_handling = 'propagate'"
default_error_handling(eh) == IF eh = "None" THEN "propagate" ELSE eh

\* _settings_config_load is entered: the lines up to the loop
SettingsConfigLoad(fp, dt, eh) ==
    /\ m_pc = "idle"
    /\ m_call' = [file_path |-> fp, data_type |-> dt, error_handling |-> eh]
    /\ LET policy == default_error_handling(eh)
       IN  /\ error_handling' = policy
           /\ IF policy \notin allowed_error_handling
              THEN /\ m_pc' = "raised" /\ m_exc' = "ValueError"
                   /\ UNCHANGED config_data_elements
              ELSE IF fp.shape = "none"
                   THEN /\ m_pc' = none_file_path(policy).pc
                        /\ m_exc' = none_file_path(policy).exc
                        /\ UNCHANGED config_data_elements
                   ELSE /\ m_pc' = "loop" /\ m_exc' = "none"
                        /\ config_data_elements' =
                               IF fp.shape \in {"list", "tuple"} THEN fp.value
                               ELSE <<fp.value>>
    /\ UNCHANGED <<m_i, result_dict, m_log>>
    /\ UNCHANGED <<loadVars, mergeVars, aliasVars>>

CallSettingsConfigLoad ==
    /\ m_pc = "idle"
    /\ \E fp \in FilePaths, dt \in ConfigDataTypes, eh \in ErrorHandlings :
           SettingsConfigLoad(fp, dt, eh)

\* one iteration of the loop for a path that names no regular file
SkipSource ==
    /\ m_pc = "loop" /\ m_i <= Len(config_data_elements)
    /\ LET config_data == as_path(config_data_elements[m_i])
       IN  /\ ~exists(config_data)
           /\ m_log' = Append(m_log, LogRecord(config_data, FALSE, "none",
                                               result_dict, result_dict))
    /\ m_i' = m_i + 1
    /\ UNCHANGED <<m_pc, m_call, error_handling, config_data_elements,
                   result_dict, m_exc>>
    /\ UNCHANGED <<loadVars, mergeVars, aliasVars>>

\* one iteration of the loop for any other source: load, merge, handle
LoadSource ==
    /\ m_pc = "loop" /\ m_i <= Len(config_data_elements)
    /\ LET config_data == as_path(config_data_elements[m_i])
           r == load_and_merge(result_dict, config_data, m_call.data_type)
           h == IF r.exc = "none" THEN "continue" ELSE handle(r.exc, error_handling)
       IN  /\ exists(config_data)
           /\ result_dict' = r.target
           /\ m_log' = Append(m_log, LogRecord(config_data, TRUE, r.exc,
                                               result_dict, r.target))
           /\ m_pc' = IF h = "exit" THEN "exited"
                      ELSE IF h = "raise" THEN "raised" ELSE "loop"
           /\ m_exc' = IF h = "exit" THEN "SystemExit"
                       ELSE IF h = "raise" THEN r.exc ELSE "none"
           /\ m_i' = IF h = "continue" THEN m_i + 1 ELSE m_i
    /\ UNCHANGED <<m_call, error_handling, config_data_elements>>
    /\ UNCHANGED <<loadVars, mergeVars, aliasVars>>

\* return result_dict
ReturnResult ==
    /\ m_pc = "loop" /\ m_i > Len(config_data_elements)
    /\ m_pc' = "returned"
    /\ UNCHANGED <<m_call, error_handling, config_data_elements, m_i,
                   result_dict, m_exc, m_log>>
    /\ UNCHANGED <<loadVars, mergeVars, aliasVars>>

(***************************************************************************)
(* dict_deep_update on objects.  The heap is a sequence of the mutable     *)
(* containers (dict, list, set); a container holds its scalars as they are *)
(* and its containers by reference, so that two containers can share a     *)
(* third and an assignment through one reference is seen through every     *)
(* other.  target is the object at TargetRoot.                             *)
(***************************************************************************)
Ref(id) == [t |-> "ref", v |-> id]

IsRef(x) == x.t = "ref"

\* the type of a value: that of the object for a reference
KindOf(h, x) == IF IsRef(x) THEN h[x.v].t ELSE x.t

TargetRoot == 1

RECURSIVE deep(_, _)

\* the value a reference stands for, with every reference followed
deep(h, x) ==
    IF ~IsRef(x) THEN x
    ELSE LET o == h[x.v]
         IN  IF o.t = "set" THEN o
             ELSE IF o.t = "list"
             THEN List([i \in 1..Len(o.v) |-> deep(h, o.v[i])])
             ELSE Dict([i \in 1..Len(o.v) |-> Item(o.v[i].k, deep(h, o.v[i].v))])

RECURSIVE build(_, _)
RECURSIVE build_all(_, _, _)

\* new objects for the value x, none shared with an object already on the
\* heap: the heap with them and the reference to (or the scalar of) x
build(h, x) ==
    IF x.t \in {"none", "int"} THEN [h |-> h, val |-> x]
    ELSE IF x.t = "set" THEN [h |-> Append(h, x), val |-> Ref(Len(h) + 1)]
    ELSE IF x.t = "list"
    THEN LET r == build_all(h, x.v, 1)
         IN  [h |-> Append(r.h, List(r.vals)), val |-> Ref(Len(r.h) + 1)]
    ELSE LET r == build_all(h, [i \in 1..Len(x.v) |-> x.v[i].v], 1)
         IN  [h |-> Append(r.h, Dict([i \in 1..Len(x.v) |->
                                          Item(x.v[i].k, r.vals[i])])),
              val |-> Ref(Len(r.h) + 1)]

build_all(h, xs, i) ==
    IF i > Len(xs) THEN [h |-> h, vals |-> <<>>]
    ELSE LET r    == build(h, xs[i])
             rest == build_all(r.h, xs, i + 1)
         IN  [h |-> rest.h, vals |-> <<r.val>> \o rest.vals]

\* variant: no copy is made, the reference itself is assigned
copy_deepcopy_shared(h, x) == [h |-> h, val |-> x]

\* copy.deepcopy: new objects with the value of x
copy_deepcopy(h, x) == build(h, deep(h, x))

\* set.copy(): one new set object
set_copy(h, x) == [h |-> Append(h, h[x.v]), val |-> Ref(Len(h) + 1)]

\* target[k] = val, for the dict object at reference id tr
assign(h, tr, k, val) == [h EXCEPT ![tr] = Put(h[tr], k, val)]

\* target[k] = <copy>, for the result c of a copy
assign_copy(c, tr, k) == assign(c.h, tr, k, c.val)

Returns(h) == [exc |-> "none", h |-> h]

RECURSIVE dict_deep_update_in_place(_, _, _, _)
RECURSIVE update_items_in_place(_, _, _, _, _)

\* the loop over source.items() for the dict objects at tr and sr, from item i
update_items_in_place(h, tr, sr, i, depth) ==
    IF i > Len(h[sr].v) THEN Returns(h)
    ELSE LET k    == h[sr].v[i].k
             sv   == h[sr].v[i].v
             t    == h[tr]
             kind == KindOf(h, sv)
             step ==
                 IF kind = "list"
                 THEN IF ~Has(t, k) THEN Returns(assign_copy(copy_deepcopy(h, sv), tr, k))
                      ELSE IF KindOf(h, Get(t, k)) = "list"
                      THEN Returns([h EXCEPT ![Get(t, k).v].v = @ \o h[sv.v].v])
                      ELSE Returns(assign_copy(copy_deepcopy(h, sv), tr, k))
                 ELSE IF kind = "dict"
                 THEN IF ~Has(t, k) THEN Returns(assign_copy(copy_deepcopy(h, sv), tr, k))
                      ELSE IF KindOf(h, Get(t, k)) = "dict"
                      THEN dict_deep_update_in_place(h, Get(t, k).v, sv.v, depth + 1)
                      ELSE Returns(assign_copy(copy_deepcopy(h, sv), tr, k))
                 ELSE IF kind = "set"
                 THEN IF ~Has(t, k) THEN Returns(assign_copy(set_copy(h, sv), tr, k))
                      ELSE IF KindOf(h, Get(t, k)) = "set"
                      THEN Returns([h EXCEPT ![Get(t, k).v].v = @ \cup h[sv.v].v])
                      ELSE Returns(assign_copy(copy_deepcopy(h, sv), tr, k))
                 ELSE Returns(assign(h, tr, k, sv))
         IN  IF step.exc # "none" THEN step
             ELSE update_items_in_place(step.h, tr, sr, i + 1, depth)

\* dict_deep_update(target, source, recursion_depth) for the dict objects at
\* the references tr and sr
dict_deep_update_in_place(h, tr, sr, recursion_depth) ==
    LET depth == IF recursion_depth >= 0 THEN recursion_depth ELSE 0
    IN  IF depth > MAX_RECURSION_DEPTH THEN [exc |-> "RecursionError", h |-> h]
        ELSE IF h[sr].v = <<>> THEN Returns([h EXCEPT ![tr].v = <<>>])
        ELSE update_items_in_place(h, tr, sr, 1, depth)

MaxObjectMerges == 3

\* sources whose lists hold scalars or containers
ObjectSources == {
    EmptyDict,
    Single("a", IntV(1)),
    Single("a", List(<<IntV(1)>>)),
    Single("a", List(<<Single("b", IntV(1))>>)),
    Single("a", SetV({1})),
    Single("a", SetV({2})),
    Single("a", EmptyDict),
    Single("a", Single("b", IntV(1))),
    Single("a", Single("b", List(<<IntV(2)>>))),
    Pair("a", Single("a", IntV(2)), "b", List(<<IntV(2)>>)) }

AliasIdle ==
    /\ heap = <<EmptyDict>> /\ merged = <<>>
    /\ a_target = EmptyDict /\ a_exc = "none"

\* the merge of the dict object at sr, of value s, into target
MergeObject(sr, s, h) ==
    LET r == dict_deep_update_in_place(h, TargetRoot, sr, 0)
    IN  /\ heap' = r.h
        /\ a_exc' = r.exc
        /\ merged' = Append(merged, [ref |-> sr, value |-> s])
        /\ a_target' = dict_deep_update(a_target, s, 0).target

\* dict_deep_update(target, s) for a source newly made, sharing nothing with
\* target or the sources before it
MergeNew ==
    /\ Len(merged) < MaxObjectMerges /\ a_exc = "none"
    /\ \E s \in ObjectSources :
           LET b == build(heap, s)
           IN  MergeObject(b.val.v, s, b.h)
    /\ UNCHANGED <<loadVars, mergeVars, multiVars>>

\* dict_deep_update(target, s) for a source that was merged before
MergeAgain ==
    /\ Len(merged) < MaxObjectMerges /\ a_exc = "none"
    /\ \E i \in 1..Len(merged) :
           MergeObject(merged[i].ref, deep(heap, Ref(merged[i].ref)), heap)
    /\ UNCHANGED <<loadVars, mergeVars, multiVars>>

(***************************************************************************)
(* Specifications                                                          *)
(***************************************************************************)
Init == Idle /\ target = EmptyDict /\ source = NoneV /\ before = NoneV
             /\ merge_exc = "none" /\ merges = 0 /\ MultiIdle /\ AliasIdle

Next == CallLoad \/ TryJson \/ TryToml \/ TryYaml \/ RaiseTerminal
        \/ DirectJson \/ DirectToml \/ DirectYaml

Spec == Init /\ [][Next]_vars

InitMerge == Idle /\ MergeIdle /\ MultiIdle /\ AliasIdle

NextMerge == DeepUpdate

SpecMerge == InitMerge /\ [][NextMerge]_vars

NextMulti == CallSettingsConfigLoad \/ SkipSource \/ LoadSource \/ ReturnResult

SpecMulti == Init /\ [][NextMulti]_vars

NextObjects == MergeNew \/ MergeAgain

SpecObjects == Init /\ [][NextObjects]_vars

TypeOK ==
    /\ pc \in {"idle", "trying", "exhausted", "returned", "raised", "parser_done"}
    /\ data_type \in ConfigDataTypes
    /\ determined \in ConfigDataTypes
    /\ idx \in 1..4
    /\ closed \in BOOLEAN
    /\ merges \in 0..MaxMerges
    /\ m_pc \in {"idle", "loop", "returned", "raised", "exited"}
    /\ error_handling \in ErrorHandlings
    /\ m_i \in 1..(Len(config_data_elements) + 1)
    /\ Len(m_log) <= Len(config_data_elements)

\* the merges on objects leave in target the value that dict_deep_update
\* computes on values
ObjectsAgree == deep(heap, Ref(TargetRoot)) = a_target

\* the step-wise run of load_dict_from_file ends as the function
\* load_dict_from_file says
LoadAgrees ==
    pc \in {"returned", "raised"}
        => outcome = load_dict_from_file(src, data_type, max_file_size)

(***************************************************************************)
(* Properties of load_dict_from_file and the parsers (Spec)                *)
(***************************************************************************)
RealFormats == {"json", "toml", "yaml"}

\* load_dict_from_file has been entered
InLoad == pc \in {"trying", "exhausted", "returned", "raised"}

\* ... and the source has passed the checks made before the parser loop
PastChecks == InLoad /\ order # <<>>

\* the call has ended
Ended == pc \in {"returned", "raised"}

C1_Table(f) ==
    CASE f = "toml" -> <<"toml", "json", "yaml">>
      [] f = "yaml" -> <<"yaml", "json", "toml">>
      [] f \in {"json", "unknown", "infer"} -> <<"json", "toml", "yaml">>

\* C1: the parsers invoked so far are, in order, the first entries of the try
\* order of the effective format (toml: toml, json, yaml; yaml: yaml, json,
\* toml; json, unknown, infer: json, toml, yaml); every invocation but the
\* last returned no result, the call returns exactly when an invocation
\* yields a result, and it goes on while entries remain.
C1_TryOrder ==
    PastChecks =>
        /\ Len(calls) <= 3
        /\ \A i \in 1..Len(calls) : calls[i].parser = C1_Table(determined)[i]
        /\ \A i \in 1..(Len(calls) - 1) :
               calls[i].exc = "none" /\ calls[i].res = NoResult
        /\ pc = "returned" <=>
               (calls # <<>> /\ calls[Len(calls)].res # NoResult)
        /\ pc = "returned" => outcome.res = calls[Len(calls)].res
        /\ pc = "trying" => Len(calls) < 3
        /\ pc = "exhausted" =>
               Len(calls) = 3 /\ calls[3].exc = "none" /\ calls[3].res = NoResult

\* yaml returned null, json failed soft, toml parsed: all three tried in order
C1_Witness ==
    /\ pc = "returned" /\ determined = "yaml" /\ Len(calls) = 3
    /\ calls[2].parser = "json" /\ calls[3].parser = "toml"
    /\ outcome.res.fmt = "toml"

\* C2: when the effective format is a real format and the content is invalid
\* for it, the first parser attempt raises DictLoadError and ends the call;
\* no other parser is attempted.
C2_MatchingFailureIsTerminal ==
    (PastChecks /\ determined \in RealFormats /\ src.doc[determined] = "error") =>
        \/ pc = "trying" /\ calls = <<>>
        \/ /\ pc = "raised" /\ outcome.exc = "DictLoadError"
           /\ Len(calls) = 1 /\ calls[1].parser = determined
           /\ calls[1].exc = "DictLoadError"

\* format inferred from the suffix, content well-formed for another format
C2_Witness ==
    /\ pc = "raised" /\ data_type = "infer" /\ determined = "json"
    /\ src.doc.id = "toml_pair" /\ Len(calls) = 1

\* a path whose suffix is detected as json, holding well-formed JSON that is
\* not valid TOML, within the size limit, loaded with declared format toml
C3_Case ==
    /\ PastChecks /\ src.kind = "path" /\ src.fs = "file"
    /\ _determine_config_file_type(src.name) = "json"
    /\ data_type = "toml"
    /\ src.doc.json = "mapping" /\ src.doc.toml = "error"

\* C3 as stated: the call returns the JSON mapping, toml having failed soft.
C3_JsonFallbackUnderDeclaredToml ==
    (C3_Case /\ Ended) =>
        /\ pc = "returned" /\ outcome.res.fmt = "json"
        /\ Len(calls) = 2 /\ calls[1].parser = "toml" /\ calls[1].res = NoResult

\* C3 amended: the TOML parser, matching the declared format, raises
\* DictLoadError on the first attempt and the JSON parser is never invoked.
C3_DeclaredTomlFailsHard ==
    (C3_Case /\ Ended) =>
        /\ pc = "raised" /\ outcome.exc = "DictLoadError"
        /\ Len(calls) = 1 /\ calls[1].parser = "toml"

C3_Witness == C3_Case /\ pc = "raised" /\ src.doc.id = "json_object"

\* C4: a parser given content that is invalid for it raises DictLoadError if
\* and only if the declared format is the parser's own; for any other
\* declared format it raises nothing and returns no result.
C4_RaiseIffDeclaredMatches ==
    \A i \in 1..Len(calls) :
        calls[i].verdict = "error" =>
            /\ calls[i].exc = "DictLoadError" <=> calls[i].declared = calls[i].parser
            /\ calls[i].declared # calls[i].parser =>
                   calls[i].exc = "none" /\ calls[i].res = NoResult

\* the YAML parser alone, declared format json, on text it cannot parse
C4_Witness ==
    /\ pc = "parser_done" /\ calls[1].parser = "yaml" /\ calls[1].declared = "json"
    /\ calls[1].verdict = "error" /\ outcome.exc = "none" /\ outcome.res = NoResult

\* C5: when all three parsers returned no result the call raises
\* DictLoadError and nothing else, and returns no value.
C5_TerminalDictLoadError ==
    (InLoad /\ Len(calls) = 3 /\ \A i \in 1..3 : calls[i].exc = "none" /\ calls[i].res = NoResult) =>
        /\ pc # "returned"
        /\ pc = "raised" => outcome.exc = "DictLoadError"

\* C6: a parser that returns no result for a stream leaves the stream at
\* position 0, and the stream is never closed.
C6_RewoundOnNoResult ==
    /\ closed = FALSE
    /\ \A i \in 1..Len(calls) :
           (calls[i].stream /\ calls[i].exc = "none" /\ calls[i].res = NoResult) =>
               calls[i].pos_after = 0

C8_Expected ==
    IF src.kind = "none" THEN "ValueError"
    ELSE IF IsPath(src) /\ src.fs = "missing" THEN "FileNotFoundError"
    ELSE IF IsPath(src) /\ src.fs = "dir" THEN "IsADirectoryError"
    ELSE IF IsPath(src) /\ src.fs = "file" /\ src.doc.len > max_file_size THEN "ValueError"
    ELSE "pass"

\* C8: None, a missing path, a directory and an oversized file are rejected in
\* that order of precedence, for every declared format, before any parser is
\* invoked; a file whose size equals the limit is not rejected.
C8_ChecksBeforeParsing ==
    InLoad =>
        IF C8_Expected # "pass"
        THEN pc = "raised" /\ outcome.exc = C8_Expected /\ calls = <<>>
        ELSE PastChecks /\ (pc = "raised" => calls # <<>>)

\* a file one size class above the limit
C8_Witness ==
    /\ pc = "raised" /\ outcome.exc = "ValueError" /\ src.fs = "file"
    /\ src.doc.len > max_file_size /\ max_file_size > 0 /\ calls = <<>>

\* name ends, case-insensitively, with suf and has something before it
C9_EndsWith(name, suf) ==
    /\ Len(name) > Len(suf)
    /\ \A i \in 1..Len(suf) : LowerChar(name[Len(name) - Len(suf) + i]) = suf[i]

C9_Table(name) ==
    IF \E suf \in { <<".","j","s","o","n">>, <<".","j","s","n">> } : C9_EndsWith(name, suf)
    THEN "json"
    ELSE IF \E suf \in { <<".","t","o","m","l">>, <<".","t","m","l">>, <<".","i","n","i">>,
                         <<".","c","o","n","f","i","g">>, <<".","c","f","g">> } :
                C9_EndsWith(name, suf)
    THEN "toml"
    ELSE IF \E suf \in { <<".","y","a","m","l">>, <<".","y","m","l">> } : C9_EndsWith(name, suf)
    THEN "yaml"
    ELSE "unknown"

\* C9: whenever the detector is called its result is the table's entry for the
\* final suffix of the name, compared case-insensitively, and unknown for any
\* other suffix or none; the result is never infer.
C9_DetectorTable ==
    detected # "notcalled" =>
        /\ detected = C9_Table(src.name)
        /\ detected \in {"json", "toml", "yaml", "unknown"}

\* a mixed-case suffix
C9_Witness ==
    /\ detected = "toml"
    /\ src.name = <<"c", ".", "C", "o", "N", "f", "I", "g">>

(***************************************************************************)
(* Properties of dict_deep_update (SpecMerge)                              *)
(***************************************************************************)
\* the last call returned without error
Merged == merges > 0 /\ merge_exc = "none"

\* C10 as stated: after a call that returned, every key target had before and
\* every key of source is a key of target.
C10_KeysKept ==
    Merged => (KeysOf(before) \cup KeysOf(source)) \subseteq KeysOf(target)

\* C10 amended: that holds when source is not empty; an empty source leaves
\* target empty.
C10_KeysKeptUnlessEmptySource ==
    Merged =>
        IF source = EmptyDict
        THEN target = EmptyDict
        ELSE (KeysOf(before) \cup KeysOf(source)) \subseteq KeysOf(target)

\* a list merged under a new key next to an existing one
C10_Witness ==
    /\ Merged /\ source = Single("b", List(<<1>>))
    /\ KeysOf(before) = {"a"} /\ KeysOf(target) = {"a", "b"}

\* C11: merging an empty source into a target mapping returns without error
\* and leaves the target empty, whatever it held before.
C11_EmptySourceClears ==
    (merges > 0 /\ source = EmptyDict /\ before # NoneV)
        => (merge_exc = "none" /\ target = EmptyDict)

\* a target with two keys emptied by an empty source
C11_Witness ==
    /\ merges > 0 /\ source = EmptyDict /\ merge_exc = "none"
    /\ Cardinality(KeysOf(before)) = 2 /\ target = EmptyDict

\* C12: after a call that returned, a key whose source value is a list holds
\* target's old list followed by source's list when target held a list there,
\* and holds source's list when the key was absent or held something else.
C12_ListValues ==
    Merged =>
        \A k \in KeysOf(source) :
            Get(source, k).t = "list" =>
                IF Has(before, k) /\ Get(before, k).t = "list"
                THEN Get(target, k) = List(Get(before, k).v \o Get(source, k).v)
                ELSE Get(target, k) = Get(source, k)

\* a list extended by an equal list: the duplicate entry is kept
C12_Witness ==
    /\ Merged /\ Has(source, "a") /\ Has(before, "a")
    /\ Get(before, "a") = List(<<1>>) /\ Get(source, "a") = List(<<1>>)
    /\ Get(target, "a") = List(<<1, 1>>)

RECURSIVE FrameKept(_, _, _)

\* t keeps, with their old values, the keys of b that the non-empty mapping s
\* does not name; where b and s both hold a non-empty mapping at a key, t holds
\* a mapping there that has s's new nested keys with s's values, and the same
\* holds one level down.
FrameKept(b, s, t) ==
    s # EmptyDict =>
        \A k \in KeysOf(b) :
            IF ~Has(s, k)
            THEN Has(t, k) /\ Get(t, k) = Get(b, k)
            ELSE (/\ Get(b, k).t = "dict" /\ Get(b, k) # EmptyDict
                  /\ Get(s, k).t = "dict" /\ Get(s, k) # EmptyDict)
                     => /\ Has(t, k) /\ Get(t, k).t = "dict"
                        /\ \A j \in KeysOf(Get(s, k)) \ KeysOf(Get(b, k)) :
                               /\ Has(Get(t, k), j)
                               /\ Get(Get(t, k), j) = Get(Get(s, k), j)
                        /\ FrameKept(Get(b, k), Get(s, k), Get(t, k))

\* C13: after a call with a non-empty source that returned, target's keys that
\* source does not name are unchanged at every level the recursion reached.
C13_FrameKept == Merged => FrameKept(before, source, target)

\* {"a": {"a": 1}} merged with {"a": {"b": 2}}: the nested key "a" stays, the
\* nested key "b" is added
C13_Witness ==
    /\ Merged
    /\ before = Single("a", Single("a", IntV(1)))
    /\ source = Single("a", Single("b", IntV(2)))
    /\ target = Single("a", Pair("a", IntV(1), "b", IntV(2)))

\* C14: after a call that returned, a key whose source value is None or
\* another scalar holds exactly source's value, whatever target held there.
C14_ScalarOverwrites ==
    Merged =>
        \A k \in KeysOf(source) :
            Get(source, k).t \in {"none", "int"} =>
                Has(target, k) /\ Get(target, k) = Get(source, k)

\* a list replaced by None
C14_Witness ==
    /\ Merged /\ Has(before, "a") /\ Get(before, "a").t = "list"
    /\ source = Single("a", NoneV) /\ target = Single("a", NoneV)

\* a mapping replaced by an integer
C14_WitnessMapping ==
    /\ Merged /\ Has(before, "a") /\ Get(before, "a").t = "dict"
    /\ Get(before, "a") # EmptyDict
    /\ source = Single("a", IntV(1)) /\ target = Single("a", IntV(1))

Max(S) == CHOOSE x \in S : \A y \in S : y <= x

RECURSIVE CommonDepth(_, _)

\* how many levels below a call on (b, s) its deepest recursive call is: one
\* more level for every key at which b and s both hold a mapping
CommonDepth(b, s) ==
    IF s = EmptyDict THEN 0
    ELSE Max({0} \cup
             { 1 + CommonDepth(Get(b, k), Get(s, k)) :
                   k \in { j \in KeysOf(s) : /\ Has(b, j)
                                              /\ Get(b, j).t = "dict"
                                              /\ Get(s, j).t = "dict" } })

\* C15: a call on two mappings raises RecursionError exactly when it needs a
\* recursive call deeper than MAX_RECURSION_DEPTH, the top-level call being at
\* depth 0; otherwise it returns.
C15_RecursionErrorIffTooDeep ==
    (merges > 0 /\ before # NoneV /\ source # NoneV) =>
        IF CommonDepth(before, source) > MAX_RECURSION_DEPTH
        THEN merge_exc = "RecursionError"
        ELSE merge_exc = "none"

\* a merge that needs a call at depth 9 raises
C15_Witness ==
    /\ merges > 0 /\ before # NoneV /\ source # NoneV
    /\ CommonDepth(before, source) = MAX_RECURSION_DEPTH + 1
    /\ merge_exc = "RecursionError"

\* a merge whose deepest call is at depth 8 returns
C15_WitnessAtCeiling ==
    /\ merges > 0 /\ before # NoneV /\ source # NoneV
    /\ CommonDepth(before, source) = MAX_RECURSION_DEPTH
    /\ merge_exc = "none"

RECURSIVE DictDepth(_)

\* the number of nested mapping levels of a value
DictDepth(v) ==
    IF v.t # "dict" THEN 0
    ELSE 1 + Max({0} \cup { DictDepth(v.v[i].v) : i \in 1..Len(v.v) })

\* C16: a call on an empty target and any mapping returns and leaves target
\* equal to that mapping, however deep the mapping is; and after any call that
\* returned, a source mapping under a key where target held no mapping is in
\* target as it is in source.
C16_CopiedWhole ==
    /\ (merges > 0 /\ before = EmptyDict /\ source # NoneV)
           => (merge_exc = "none" /\ target = source)
    /\ Merged =>
           \A k \in KeysOf(source) :
               (/\ Get(source, k).t = "dict"
                /\ ~(Has(before, k) /\ Get(before, k).t = "dict"))
                   => Has(target, k) /\ Get(target, k) = Get(source, k)

\* a mapping nested deeper than the ceiling merged into an empty target
C16_Witness ==
    /\ merges > 0 /\ before = EmptyDict /\ merge_exc = "none"
    /\ DictDepth(source) > MAX_RECURSION_DEPTH + 1
    /\ target = source

\* a deep mapping copied over a scalar next to another key
C16_WitnessOverScalar ==
    /\ Merged /\ Has(before, "a") /\ Get(before, "a").t = "int"
    /\ Has(source, "a") /\ DictDepth(Get(source, "a")) > MAX_RECURSION_DEPTH
    /\ Get(target, "a") = Get(source, "a")

\* a call that merges again the source of the call before it, both returning
SameSourceAgain ==
    /\ Merged /\ merges' = merges + 1
    /\ source' = source /\ merge_exc' = "none"

\* C17: when one source is merged twice in succession, a key whose source
\* value is the list L holds T ++ L ++ L afterwards if target held the list T
\* before the first merge, and L ++ L if the key was absent then.
C17_TwiceDuplicates ==
    [][SameSourceAgain =>
           \A k \in KeysOf(source) :
               Get(source, k).t = "list" =>
                   LET L == Get(source, k).v
                   IN  /\ (Has(before, k) /\ Get(before, k).t = "list")
                              => Get(target', k) = List(Get(before, k).v \o L \o L)
                       /\ ~Has(before, k)
                              => Get(target', k) = List(L \o L)]_vars

\* [1] after [2] was merged twice: before the second merge it was [1, 2]
C17_Witness ==
    /\ Merged /\ merges = 2 /\ source = Single("a", List(<<2>>))
    /\ before = Single("a", List(<<1, 2>>))
    /\ target = Single("a", List(<<1, 2, 2>>))

(***************************************************************************)
(* Properties of _settings_config_load (SpecMulti)                         *)
(***************************************************************************)
MultiEnded == m_pc \in {"returned", "raised", "exited"}

\* the sources of the call in list order; one source that is neither a list
\* nor a tuple counts as a list of one
SourcesOf(fp) == IF fp.shape \in {"list", "tuple"} THEN fp.value ELSE <<fp.value>>

\* what loading source s alone yields under the call's declared format
Loaded(s) == load_dict_from_file(s, m_call.data_type, MAX_CONFIG_FILE_SIZE)

\* s loads successfully: load_dict_from_file returns a mapping
LoadsMapping(s) == Loaded(s).exc = "none" /\ Loaded(s).res.kind = "mapping"

RECURSIVE MergeInOrder(_, _, _)

\* dict_deep_update applied to acc with the mappings of srcs[i], srcs[i+1], ...
MergeInOrder(acc, srcs, i) ==
    IF i > Len(srcs) THEN Done(acc)
    ELSE LET r == dict_deep_update(acc, value_of(Loaded(srcs[i]).res), 0)
         IN  IF r.exc # "none" THEN r ELSE MergeInOrder(r.target, srcs, i + 1)

C18_WitnessNested ==
    /\ m_pc = "returned" /\ m_call.file_path.shape = "tuple"
    /\ Len(m_log) = 2
    /\ m_log[1].after = Single("a", Single("b", IntV(1)))
    /\ result_dict = Single("a", Pair("b", IntV(1), "a", IntV(2)))

\* one source passed as it is
C18_WitnessSingle ==
    /\ m_pc = "returned" /\ m_call.file_path.shape = "single"
    /\ LoadsMapping(m_call.file_path.value)
    /\ result_dict = Single("a", List(<<1>>))

\* DictLoadError and the I/O errors
LoadErrors == {"DictLoadError", "PermissionError", "FileNotFoundError",
               "IsADirectoryError"}

\* the i-th source was loaded and loading it raised DictLoadError or an I/O
\* error
LoadFailed(i) ==
    /\ i \in 1..Len(m_log)
    /\ m_log[i].loaded
    /\ Loaded(config_data_elements[i]).exc \in LoadErrors

\* every source after the i-th has been dealt with, and each one that loads to
\* a mapping was merged into the accumulator
LaterSourcesMerged(i) ==
    /\ Len(m_log) = Len(config_data_elements)
    /\ \A j \in (i + 1)..Len(m_log) :
           LoadsMapping(config_data_elements[j]) =>
               /\ m_log[j].loaded
               /\ m_log[j].after =
                      dict_deep_update(m_log[j].before,
                                       value_of(Loaded(config_data_elements[j]).res),
                                       0).target

\* C19: when loading a source raises DictLoadError or an I/O error, abort ends
\* the process and propagate passes that error to the caller, both without
\* loading a later source; ignore leaves the accumulator as it was, lets no
\* error of that source reach the caller, and the later sources are loaded and
\* merged.
C19_PolicyOnLoadError ==
    \A i \in 1..Len(m_log) :
        LoadFailed(i) =>
            IF error_handling = "abort"
            THEN m_pc = "exited" /\ m_exc = "SystemExit" /\ Len(m_log) = i
            ELSE IF error_handling = "propagate"
            THEN /\ m_pc = "raised" /\ Len(m_log) = i
                 /\ m_exc = Loaded(config_data_elements[i]).exc
            ELSE /\ m_log[i].after = m_log[i].before
                 /\ (m_pc \in {"raised", "exited"} => Len(m_log) > i)
                 /\ (m_pc = "returned" => LaterSourcesMerged(i))

\* ignore: an unreadable file is passed over and the source after it is merged
C19_Witness ==
    /\ m_pc = "returned" /\ error_handling = "ignore" /\ Len(m_log) = 2
    /\ LoadFailed(1) /\ m_log[1].exc = "PermissionError"
    /\ m_log[2].loaded /\ result_dict = Single("a", IntV(1))

\* ignore: the accumulator built so far survives a malformed source
C19_WitnessIgnoreKeeps ==
    /\ m_pc = "returned" /\ error_handling = "ignore" /\ Len(m_log) = 2
    /\ LoadFailed(2) /\ m_log[2].exc = "DictLoadError"
    /\ m_log[2].before # EmptyDict /\ result_dict = m_log[2].before

\* abort: the process ends at the first of two sources
C19_WitnessAbort ==
    /\ m_pc = "exited" /\ error_handling = "abort"
    /\ LoadFailed(1) /\ Len(config_data_elements) = 2 /\ Len(m_log) = 1

\* propagate: the error of the first of two sources reaches the caller
C19_WitnessPropagate ==
    /\ m_pc = "raised" /\ m_call.error_handling = "None"
    /\ LoadFailed(1) /\ m_exc = "DictLoadError"
    /\ Len(config_data_elements) = 2 /\ Len(m_log) = 1

\* a str or Path that does not name an existing regular file
NotAFile(s) == IsPath(s) /\ s.fs # "file"

RECURSIVE RunLoading(_, _, _)

\* how a call ends that loads and merges every one of srcs[i], srcs[i+1], ...
\* into acc under the policy and declared format of the call in progress
RunLoading(acc, srcs, i) ==
    IF i > Len(srcs) THEN [pc |-> "returned", exc |-> "none", result |-> acc]
    ELSE LET r == load_and_merge(acc, as_path(srcs[i]), m_call.data_type)
             h == IF r.exc = "none" THEN "continue"
                  ELSE handle(r.exc, error_handling)
         IN  IF h = "exit"
             THEN [pc |-> "exited", exc |-> "SystemExit", result |-> EmptyDict]
             ELSE IF h = "raise"
             THEN [pc |-> "raised", exc |-> r.exc, result |-> EmptyDict]
             ELSE RunLoading(r.target, srcs, i + 1)

\* how the call in progress has ended, as its caller sees it
Ending ==
    [pc |-> m_pc, exc |-> m_exc,
     result |-> IF m_pc = "returned" THEN result_dict ELSE EmptyDict]

\* C20: under abort, propagate and ignore alike, a path source that does not
\* name an existing regular file is not loaded, leaves the accumulator as it
\* is and ends neither the call nor the process; the call ends as the same
\* call without these sources ends.
C20_NotAFileSkipped ==
    /\ \A i \in 1..Len(m_log) :
           NotAFile(config_data_elements[i]) =>
               /\ ~m_log[i].loaded /\ m_log[i].exc = "none"
               /\ m_log[i].after = m_log[i].before
               /\ (m_pc \in {"raised", "exited"} => Len(m_log) > i)
    /\ (MultiEnded /\ m_call.file_path.shape # "none"
                   /\ error_handling \in allowed_error_handling)
           => Ending = RunLoading(EmptyDict,
                                  SelectSeq(SourcesOf(m_call.file_path),
                                            LAMBDA s : ~NotAFile(s)), 1)

\* abort: a missing path before a source that loads
C20_Witness ==
    /\ m_pc = "returned" /\ error_handling = "abort" /\ Len(m_log) = 2
    /\ m_log[1].source.fs = "missing" /\ ~m_log[1].loaded
    /\ m_log[2].loaded /\ result_dict = Single("a", IntV(1))

\* propagate: a directory after a source that loads
C20_WitnessDirectory ==
    /\ m_pc = "returned" /\ error_handling = "propagate" /\ Len(m_log) = 2
    /\ m_log[2].source.fs = "dir" /\ ~m_log[2].loaded
    /\ m_log[1].loaded /\ result_dict = Single("a", IntV(2))

\* ignore: a missing path passed as it is gives an empty result
C20_WitnessSingle ==
    /\ m_pc = "returned" /\ error_handling = "ignore"
    /\ m_call.file_path.shape = "single" /\ Len(m_log) = 1
    /\ m_log[1].source.fs = "missing" /\ result_dict = EmptyDict

\* the i-th source is an object that is neither a path nor a readable stream
IsObjectSource(i) == i \in 1..Len(m_log) /\ m_log[i].source.kind = "object"

\* C21 as stated: under every policy a source that is neither a path nor a
\* readable stream ends the call with an error raised to the caller.
C21_ObjectAlwaysRaises ==
    \A i \in 1..Len(m_log) :
        IsObjectSource(i) => (m_pc = "raised" /\ Len(m_log) = i)

\* C21 amended: such a source is loaded and the first parser raises
\* DictLoadError for it, which the policy governs like any other load error:
\* it reaches the caller under propagate, ends the process under abort and is
\* passed over under ignore.
C21_ObjectIsPolicyGated ==
    \A i \in 1..Len(m_log) :
        IsObjectSource(i) =>
            /\ m_log[i].loaded /\ m_log[i].exc = "DictLoadError"
            /\ IF error_handling = "propagate"
               THEN m_pc = "raised" /\ m_exc = "DictLoadError" /\ Len(m_log) = i
               ELSE IF error_handling = "abort"
               THEN m_pc = "exited" /\ m_exc = "SystemExit" /\ Len(m_log) = i
               ELSE /\ m_log[i].after = m_log[i].before
                    /\ (m_pc \in {"raised", "exited"} => Len(m_log) > i)

\* ignore: the integer is passed over and the source after it is returned
C21_Witness ==
    /\ m_pc = "returned" /\ error_handling = "ignore" /\ Len(m_log) = 2
    /\ IsObjectSource(1) /\ m_log[2].loaded
    /\ result_dict = Single("a", IntV(1))

\* abort: the integer ends the process
C21_WitnessAbort ==
    /\ m_pc = "exited" /\ error_handling = "abort" /\ IsObjectSource(1)

\* the i-th source loaded to a mapping whose merge into the accumulator needs
\* a recursive call beyond the ceiling
MergeTooDeep(i) ==
    /\ i \in 1..Len(m_log)
    /\ m_log[i].loaded
    /\ LoadsMapping(m_log[i].source)
    /\ CommonDepth(m_log[i].before, value_of(Loaded(m_log[i].source).res))
           > MAX_RECURSION_DEPTH

\* C22: a RecursionError of merging a loaded source into the accumulator
\* reaches the caller under abort, propagate and ignore alike.
C22_RecursionErrorPropagates ==
    \A i \in 1..Len(m_log) :
        MergeTooDeep(i) =>
            /\ m_log[i].exc = "RecursionError"
            /\ m_pc = "raised" /\ m_exc = "RecursionError" /\ Len(m_log) = i

\* ignore: the second of two deep sources raises
C22_Witness ==
    /\ MergeTooDeep(2) /\ error_handling = "ignore"
    /\ m_pc = "raised" /\ m_exc = "RecursionError"

\* abort: the same, the process is not ended
C22_WitnessAbort ==
    /\ MergeTooDeep(2) /\ error_handling = "abort"
    /\ m_pc = "raised" /\ m_exc = "RecursionError"

RECURSIVE RunUnder(_, _, _, _)

\* how a call under the given policy ends that deals with srcs[i], srcs[i+1],
\* ... starting from the accumulator acc
RunUnder(policy, acc, srcs, i) ==
    IF i > Len(srcs) THEN [pc |-> "returned", exc |-> "none", result |-> acc]
    ELSE IF NotAFile(srcs[i]) THEN RunUnder(policy, acc, srcs, i + 1)
    ELSE LET r == load_and_merge(acc, as_path(srcs[i]), m_call.data_type)
             h == IF r.exc = "none" THEN "continue" ELSE handle(r.exc, policy)
         IN  IF h = "exit"
             THEN [pc |-> "exited", exc |-> "SystemExit", result |-> EmptyDict]
             ELSE IF h = "raise"
             THEN [pc |-> "raised", exc |-> r.exc, result |-> EmptyDict]
             ELSE RunUnder(policy, r.target, srcs, i + 1)

\* how the call in progress would end under the given policy
EndingUnder(policy) ==
    IF m_call.file_path.shape = "none"
    THEN IF policy = "abort"
         THEN [pc |-> "exited", exc |-> "SystemExit", result |-> EmptyDict]
         ELSE IF policy = "propagate"
         THEN [pc |-> "raised", exc |-> "ValueError", result |-> EmptyDict]
         ELSE [pc |-> "returned", exc |-> "none", result |-> EmptyDict]
    ELSE RunUnder(policy, EmptyDict, SourcesOf(m_call.file_path), 1)

\* C23: an error_handling other than the three policies and None raises
\* ValueError before any source is looked at, whatever the source is; a call
\* with error_handling None ends as the same call under propagate ends.
C23_PolicyChecked ==
    /\ (m_pc # "idle" /\ m_call.error_handling \notin allowed_error_handling \cup {"None"})
           => /\ m_pc = "raised" /\ m_exc = "ValueError"
              /\ m_log = <<>> /\ config_data_elements = <<>>
    /\ (MultiEnded /\ m_call.error_handling = "None")
           => Ending = EndingUnder("propagate")

\* an invalid policy with a None source
C23_Witness ==
    /\ m_pc = "raised" /\ m_exc = "ValueError"
    /\ m_call.error_handling = "foobar" /\ m_call.file_path.shape = "none"

\* an invalid policy with a missing file
C23_WitnessMissing ==
    /\ m_pc = "raised" /\ m_exc = "ValueError"
    /\ m_call.error_handling = "foobar" /\ m_call.file_path.shape = "single"
    /\ m_call.file_path.value.fs = "missing"

\* None as policy: a malformed source raises as under propagate
C23_WitnessNone ==
    /\ m_pc = "raised" /\ m_exc = "DictLoadError"
    /\ m_call.error_handling = "None" /\ Len(m_log) = 2

\* C24: a call with a None source and a valid policy ends the process under
\* abort, raises ValueError under propagate and returns an empty mapping under
\* ignore, without loading anything.
C24_NoneSource ==
    (/\ m_pc # "idle" /\ m_call.file_path.shape = "none"
     /\ m_call.error_handling \in allowed_error_handling)
        => /\ m_log = <<>> /\ config_data_elements = <<>>
           /\ IF m_call.error_handling = "abort"
              THEN m_pc = "exited" /\ m_exc = "SystemExit"
              ELSE IF m_call.error_handling = "propagate"
              THEN m_pc = "raised" /\ m_exc = "ValueError"
              ELSE m_pc = "returned" /\ m_exc = "none" /\ result_dict = EmptyDict

\* ignore: an empty mapping is returned
C24_Witness ==
    /\ m_call.file_path.shape = "none" /\ m_call.error_handling = "ignore"
    /\ m_pc = "returned" /\ result_dict = EmptyDict /\ m_log = <<>>

\* abort: the process ends
C24_WitnessAbort ==
    /\ m_call.file_path.shape = "none" /\ m_call.error_handling = "abort"
    /\ m_pc = "exited"

\* the i-th source was loaded and is an empty mapping
LoadedEmpty(i) ==
    /\ i \in 1..Len(m_log)
    /\ m_log[i].loaded
    /\ LoadsMapping(m_log[i].source)
    /\ value_of(Loaded(m_log[i].source).res) = EmptyDict

\* the sources listed after the i-th
SourcesAfter(i) == SubSeq(config_data_elements, i + 1, Len(config_data_elements))

C25_WitnessLast ==
    /\ m_pc = "returned" /\ Len(m_log) = 2 /\ LoadedEmpty(2)
    /\ m_log[2].before # EmptyDict /\ result_dict = EmptyDict

\* a call that merges, into what a first call made of an empty target, the
\* source of that first call again, the source having at least ten mapping
\* levels
DeepSourceAgain ==
    /\ merges > 0 /\ before = EmptyDict /\ source # NoneV
    /\ DictDepth(source) >= MAX_RECURSION_DEPTH + 2
    /\ merges' = merges + 1 /\ source' = source

\* C26: merging a source of ten or more mapping levels into an empty target
\* returns and leaves the source's value in target; merging the same source
\* into that result again raises RecursionError.
C26_SecondMergeRaises ==
    [][DeepSourceAgain =>
           /\ merge_exc = "none" /\ target = source
           /\ merge_exc' = "RecursionError"]_vars

\* the second merge of the ten-level source has raised
C26_Witness ==
    /\ merges = 2 /\ source = Chain(MAX_RECURSION_DEPTH + 2)
    /\ before = source /\ merge_exc = "RecursionError"

\* the item of s at which a call on (b, s) at the given depth raises: the
\* first one where both sides hold a mapping and the recursion goes beyond the
\* ceiling; 0 if there is none
FailingItem(b, s, depth) ==
    LET bad == { i \in 1..Len(s.v) :
                     /\ Has(b, s.v[i].k)
                     /\ Get(b, s.v[i].k).t = "dict" /\ s.v[i].v.t = "dict"
                     /\ depth + 1 + CommonDepth(Get(b, s.v[i].k), s.v[i].v)
                            > MAX_RECURSION_DEPTH }
    IN  IF bad = {} THEN 0 ELSE CHOOSE i \in bad : \A j \in bad : i <= j

RECURSIVE PartialKept(_, _, _, _)

\* t is what a call on (b, s) that raised RecursionError at the given depth
\* leaves behind: the items of s before the failing one are merged in, and
\* under the failing key is what the recursive call left behind, which is the
\* old value if that call was itself beyond the ceiling
PartialKept(b, s, t, depth) ==
    LET f == FailingItem(b, s, depth)
        k == s.v[f].k
        done == IF f = 1 THEN b
                ELSE dict_deep_update(b, Dict(SubSeq(s.v, 1, f - 1)), depth).target
    IN  /\ f > 0
        /\ KeysOf(t) = KeysOf(done)
        /\ \A j \in KeysOf(done) \ {k} : Get(t, j) = Get(done, j)
        /\ IF depth + 1 > MAX_RECURSION_DEPTH
           THEN Get(t, k) = Get(b, k)
           ELSE PartialKept(Get(b, k), s.v[f].v, Get(t, k), depth + 1)

\* C27: a call that raised RecursionError leaves in target the changes made
\* for the keys visited before the failure, at every level down to it; target
\* is not put back to what it was.
C27_NotAtomic ==
    (merges > 0 /\ merge_exc = "RecursionError")
        => PartialKept(before, source, target, 0)

\* {"b": 1, "a": {...}} into a ten-level target: "b" was added before "a" failed
C27_Witness ==
    /\ merges > 0 /\ merge_exc = "RecursionError"
    /\ source = Pair("b", IntV(1), "a", Chain(MAX_RECURSION_DEPTH + 1))
    /\ ~Has(before, "b") /\ Has(target, "b") /\ Get(target, "b") = IntV(1)
    /\ Get(target, "a") = Get(before, "a")

\* {"a": {"b": 1, "a": {...}}}: "b" was added one level down
C27_WitnessNested ==
    /\ merges > 0 /\ merge_exc = "RecursionError"
    /\ source = Single("a", Pair("b", IntV(1), "a", Chain(MAX_RECURSION_DEPTH)))
    /\ ~Has(Get(before, "a"), "b") /\ Has(Get(target, "a"), "b")
    /\ target # before

RECURSIVE NestedCleared(_, _, _)

\* for the non-empty mapping s: where s holds an empty mapping and b holds a
\* mapping, t holds an empty mapping; the keys of b that s does not name are
\* in t with their old values; and the same one level down where both hold a
\* mapping and that of s is not empty
NestedCleared(b, s, t) ==
    /\ \A j \in KeysOf(b) \ KeysOf(s) : Has(t, j) /\ Get(t, j) = Get(b, j)
    /\ \A k \in KeysOf(s) :
           (Has(b, k) /\ Get(b, k).t = "dict" /\ Get(s, k).t = "dict") =>
               /\ Has(t, k)
               /\ IF Get(s, k) = EmptyDict
                  THEN Get(t, k) = EmptyDict
                  ELSE NestedCleared(Get(b, k), Get(s, k), Get(t, k))

\* C28: after a call that returned, a key at which source holds an empty
\* mapping and target held a mapping is still in target and holds an empty
\* mapping, at every level of recursion, and target's sibling keys are
\* unchanged.
C28_NestedEmptyClears ==
    (Merged /\ source # EmptyDict) => NestedCleared(before, source, target)

\* {"a": {"a": 1}, "b": 2} merged with {"a": {}}
C28_Witness ==
    /\ Merged /\ source = Single("a", EmptyDict)
    /\ Has(before, "a") /\ Get(before, "a") = Single("a", IntV(1))
    /\ Has(before, "b")
    /\ Get(target, "a") = EmptyDict /\ Get(target, "b") = Get(before, "b")

\* one level down: {"a": {"a": {...}}} merged with {"a": {"a": {}}}
C28_WitnessDeeper ==
    /\ Merged /\ source = Single("a", Single("a", EmptyDict))
    /\ Has(before, "a") /\ Get(before, "a").t = "dict" /\ Has(Get(before, "a"), "a")
    /\ Get(Get(before, "a"), "a").t = "dict" /\ Get(Get(before, "a"), "a") # EmptyDict
    /\ target = Single("a", Single("a", EmptyDict))

\* the i-th parser call of the load in progress parsed its text to None
ParsedNull(i) == PastChecks /\ i \in 1..Len(calls) /\ calls[i].verdict = "null"

C29_WitnessYaml ==
    /\ ParsedNull(1) /\ calls[1].parser = "yaml" /\ determined = "yaml"
    /\ pc = "returned" /\ outcome.res.fmt = "toml"

(***************************************************************************)
(* Properties of dict_deep_update on objects (SpecObjects)                 *)
(***************************************************************************)
\* C30: after any sequence of merges into one target, of sources that shared
\* nothing with target or each other when they were made, every source that
\* was merged still has the value it had when it was merged.
C30_SourcesUnchanged ==
    \A i \in 1..Len(merged) :
        deep(heap, Ref(merged[i].ref)) = merged[i].value

\* {"a": {"b": 1}} then {"a": {"b": [2]}}: target's copy of the first source
\* was written to, the first source was not
C30_Witness ==
    /\ a_exc = "none" /\ Len(merged) >= 2
    /\ merged[1].value = Single("a", Single("b", IntV(1)))
    /\ deep(heap, Ref(merged[1].ref)) = merged[1].value
    /\ a_target = Single("a", Single("b", List(<<IntV(2)>>)))

\* {"a": [{"b": 1}]} merged twice: target's list holds the source's own
\* {"b": 1} as its second entry
C30_WitnessShared ==
    /\ a_exc = "none" /\ Len(merged) = 2 /\ merged[2].ref = merged[1].ref
    /\ merged[1].value = Single("a", List(<<Single("b", IntV(1))>>))
    /\ LET tl == heap[Get(heap[TargetRoot], "a").v]
           sl == heap[Get(heap[merged[1].ref], "a").v]
       IN  /\ Len(tl.v) = 2 /\ IsRef(tl.v[2]) /\ tl.v[2] = sl.v[1]
           /\ tl.v[1] # sl.v[1]

====
